---- MODULE Spec2Model ----
(***************************************************************************)
(* A model of components/document_processor.py: the DocumentProcessor's    *)
(* in-memory collections (documents, sections, embeddings), its durable    *)
(* store (documents.json, sections.json, embeddings.npy), ingestion,       *)
(* similarity search and the document network.                             *)
(*                                                                         *)
(* Strings are sequences of one-character strings; "\n" is the newline.    *)
(* Embedding vectors are pairs of integers.  A cosine similarity is kept   *)
(* exactly, as the record [nan, sgn, num, den] that stands for             *)
(* sgn * sqrt(num / den), or for NaN when nan is TRUE.                     *)
(***************************************************************************)
EXTENDS Integers, Sequences, FiniteSets, TLC

\* ------------------------------------------------------------------ bounds
MaxDocs == 2           \* documents created in one exploration
MaxSections == 3       \* len(self.sections), ingestion machine
MaxQuerySections == 2  \* len(self.sections), query machine
MaxTopK == 2           \* top_k
MaxTextLen == 6        \* len(text), segmentation alone

\* ------------------------------------------------------- strings (str API)
NL == "\n"

IsSpace(c) == c \in {" ", NL}

RECURSIVE LStrip(_)
LStrip(s) ==
    IF s = <<>> THEN <<>>
    ELSE IF IsSpace(Head(s)) THEN LStrip(Tail(s))
    ELSE s

RECURSIVE RStrip(_)
RStrip(s) ==
    IF s = <<>> THEN <<>>
    ELSE IF IsSpace(s[Len(s)]) THEN RStrip(SubSeq(s, 1, Len(s) - 1))
    ELSE s

\* str.strip()
Strip(s) == RStrip(LStrip(s))

\* len(str.split()): the number of maximal runs of non-whitespace characters
RECURSIVE WordCount(_)
WordCount(s) ==
    IF s = <<>> THEN 0
    ELSE IF IsSpace(Head(s)) THEN WordCount(Tail(s))
    ELSE IF Len(s) = 1 \/ IsSpace(s[2]) THEN 1 + WordCount(Tail(s))
    ELSE WordCount(Tail(s))

\* text.split("\n\n"): leftmost, non-overlapping separators; always >= 1 block
RECURSIVE SplitFrom(_, _)
SplitFrom(s, cur) ==
    IF s = <<>> THEN <<cur>>
    ELSE IF Len(s) >= 2 /\ s[1] = NL /\ s[2] = NL
         THEN <<cur>> \o SplitFrom(SubSeq(s, 3, Len(s)), <<>>)
    ELSE SplitFrom(Tail(s), Append(cur, Head(s)))

SplitParagraphs(text) == SplitFrom(text, <<>>)

\* dict.get(key, default) on a record that may lack the key
Get(d, key, default) == IF key \in DOMAIN d THEN d[key] ELSE default

\* ------------------------------------------------------------------- state
VARIABLES
    documents,     \* self.documents
    sections,      \* self.sections
    embeddings,    \* self.embeddings
    documents_db,  \* data/documents.json
    sections_db,   \* data/sections.json
    embeddings_db, \* data/embeddings.npy
    nextId,        \* the uuid4 values drawn so far (document ids are fresh)
    allSucceeded,  \* no process_document call has failed on this instance
    failed,        \* ids of the documents whose call raised on this instance
    last           \* the last operation and what it returned or raised

vars == <<documents, sections, embeddings, documents_db, sections_db,
          embeddings_db, nextId, allSucceeded, failed, last>>

mem == <<documents, sections, embeddings>>
store == <<documents_db, sections_db, embeddings_db>>

\* A file of the store: absent, readable with its data, or unreadable.
Missing == [st |-> "missing", data |-> <<>>]
Corrupt == [st |-> "corrupt", data |-> <<>>]
Written(data) == [st |-> "ok", data |-> data]

\* np.array(list of rows) and ndarray.tolist()
NpArray(rows) == [shape |-> <<Len(rows), IF rows = <<>> THEN 0 ELSE Len(rows[1])>>,
                  rows |-> rows]
ToList(arr) == arr.rows

\* --------------------------------------------------------------- _load_data
\* On a fresh instance (all three lists empty).  The three reads are in one
\* try block: the first unreadable file stops the loading, and the handler
\* resets self.embeddings only.
load_data(ddb, sdb, edb) ==
    LET docs == IF ddb.st = "ok" THEN ddb.data ELSE <<>>
        secs == IF sdb.st = "ok" THEN sdb.data ELSE <<>>
        embs == IF edb.st = "ok" THEN ToList(edb.data) ELSE <<>>
    IN  IF ddb.st = "corrupt"
          THEN [documents |-> <<>>, sections |-> <<>>, embeddings |-> <<>>, error |-> TRUE]
        ELSE IF sdb.st = "corrupt"
          THEN [documents |-> docs, sections |-> <<>>, embeddings |-> <<>>, error |-> TRUE]
        ELSE IF edb.st = "corrupt"
          THEN [documents |-> docs, sections |-> secs, embeddings |-> <<>>, error |-> TRUE]
        ELSE [documents |-> docs, sections |-> secs, embeddings |-> embs, error |-> FALSE]

\* --------------------------------------------------------------- _save_data
\* documents.json and sections.json are always rewritten; embeddings.npy only
\* when the list is not empty.
save_data(docs, secs, embs, edb) ==
    [documents_db |-> Written(docs),
     sections_db |-> Written(secs),
     embeddings_db |-> IF Len(embs) > 0 THEN Written(NpArray(embs)) ELSE edb]

\* ------------------------------------------------------- process_document
\* The names a file can have, and os.path.splitext(name)[1].lower().
FileNames == {"std.pdf", "std.docx", "std.TXT", "std.md"}

file_extension(file_name) ==
    CASE file_name = "std.pdf" -> ".pdf"
      [] file_name = "std.docx" -> ".docx"
      [] file_name = "std.TXT" -> ".txt"
      [] file_name = "std.md" -> ".md"

\* file_extension[1:]
WithoutDot(ext) ==
    CASE ext = ".pdf" -> "pdf"
      [] ext = ".docx" -> "docx"
      [] ext = ".txt" -> "txt"
      [] ext = ".md" -> "md"

\* A variant of extract_text whose last branch decodes the content as text
\* instead of raising.
extract_text_lenient(ext, extracted) ==
    IF extracted.raised
      THEN [raised |-> TRUE, error |-> "ExtractionError", text |-> <<>>]
      ELSE [raised |-> FALSE, error |-> "", text |-> extracted.text]

\* The if/elif chain on the extension: the text, or the exception raised.
\* extracted is what the extraction library (or bytes.decode) does with the
\* content: [raised |-> TRUE] or [raised |-> FALSE, text |-> ...].
extract_text(ext, extracted) ==
    IF ext \in {".pdf", ".docx", ".txt"}
      THEN IF extracted.raised
             THEN [raised |-> TRUE, error |-> "ExtractionError", text |-> <<>>]
             ELSE [raised |-> FALSE, error |-> "", text |-> extracted.text]
      ELSE [raised |-> TRUE, error |-> "ValueError", text |-> <<>>]

\* The document record (size and processed_date carry no behaviour here).
Document(doc_id, file_name, ext) ==
    [id |-> doc_id, filename |-> file_name, type |-> WithoutDot(ext)]

\* f"Section {n}"
SectionTitle(n) == [text |-> "Section", n |-> n]

\* The fallback of _split_into_sections: one {title, content} per block whose
\* strip() is not empty, titled by the block's position among ALL blocks.
RECURSIVE FallbackFrom(_, _)
FallbackFrom(sections_text, i) ==
    IF i > Len(sections_text) THEN <<>>
    ELSE (IF Strip(sections_text[i]) # <<>>
            THEN <<[title |-> SectionTitle(i), content |-> sections_text[i]]>>
            ELSE <<>>)
         \o FallbackFrom(sections_text, i + 1)

fallback_sections(sections_text) == FallbackFrom(sections_text, 1)

\* What the chat-completions call and the parse of its reply can do:
\*   "raise"           the call itself raises (it is outside the try block)
\*   "invalid_json"    json.loads raises JSONDecodeError
\*   "no_sections_key" a JSON object without the key 'sections' (KeyError)
\*   "not_an_object"   the reply is not a JSON object (TypeError on ['sections'])
\*   "not_dicts"       'sections' holds items without .get (AttributeError)
\*   "sections"        'sections' is a list of dicts, in value
\* A section of the result: id stands for the fresh uuid4 of the section.
format_sections(parsed_sections, doc_id) ==
    [i \in 1..Len(parsed_sections) |->
        LET section == parsed_sections[i] IN
        [id |-> <<doc_id, i - 1>>,
         document_id |-> doc_id,
         index |-> i - 1,
         title |-> Get(section, "title", SectionTitle(i)),
         content |-> Strip(Get(section, "content", <<>>)),
         word_count |-> WordCount(Get(section, "content", <<>>))]]

split_into_sections(text, doc_id, response) ==
    LET sections_text == SplitParagraphs(text) IN
    IF response.kind = "raise"
      THEN [raised |-> TRUE, fallback |-> FALSE, sections |-> <<>>]
    ELSE IF response.kind \in {"invalid_json", "no_sections_key"}
      THEN [raised |-> FALSE, fallback |-> TRUE,
            sections |-> format_sections(fallback_sections(sections_text), doc_id)]
    ELSE IF response.kind \in {"not_an_object", "not_dicts"}
      THEN [raised |-> TRUE, fallback |-> FALSE, sections |-> <<>>]
    ELSE [raised |-> FALSE, fallback |-> FALSE,
          sections |-> format_sections(response.value, doc_id)]

\* A variant of embed_and_save that saves after every appended section.
embed_and_save_each(docs, secs, embs, new_sections, vecs, ddb, sdb, edb) ==
    LET k == Len(vecs)
        secs2 == secs \o SubSeq(new_sections, 1, k)
        embs2 == embs \o vecs
        done == k = Len(new_sections)
        saved == save_data(docs, secs2, embs2, edb)
    IN  [sections |-> secs2,
         embeddings |-> embs2,
         raised |-> ~done,
         saves |-> k,
         documents_db |-> IF k > 0 THEN saved.documents_db ELSE ddb,
         sections_db |-> IF k > 0 THEN saved.sections_db ELSE sdb,
         embeddings_db |-> IF k > 0 THEN saved.embeddings_db ELSE edb]

\* A variant of embed_and_save that appends a section before it asks for the
\* section's embedding.
embed_and_save_section_first(docs, secs, embs, new_sections, vecs, ddb, sdb, edb) ==
    LET k == Len(vecs)
        done == k = Len(new_sections)
        secs2 == secs \o SubSeq(new_sections, 1, IF done THEN k ELSE k + 1)
        embs2 == embs \o vecs
        saved == save_data(docs, secs2, embs2, edb)
    IN  [sections |-> secs2,
         embeddings |-> embs2,
         raised |-> ~done,
         saves |-> IF done THEN 1 ELSE 0,
         documents_db |-> IF done THEN saved.documents_db ELSE ddb,
         sections_db |-> IF done THEN saved.sections_db ELSE sdb,
         embeddings_db |-> IF done THEN saved.embeddings_db ELSE edb]

\* A variant of embed_and_save that saves once, before the loop.
embed_and_save_first(docs, secs, embs, new_sections, vecs, ddb, sdb, edb) ==
    LET k == Len(vecs)
        saved == save_data(docs, secs, embs, edb)
    IN  [sections |-> secs \o SubSeq(new_sections, 1, k),
         embeddings |-> embs \o vecs,
         raised |-> k # Len(new_sections),
         saves |-> 1,
         documents_db |-> saved.documents_db,
         sections_db |-> saved.sections_db,
         embeddings_db |-> saved.embeddings_db]

\* The loop over the new sections and the save that follows it.  vecs are the
\* embeddings the oracle returned before it failed (all of them when it did
\* not fail): the section is appended after its embedding was obtained, and
\* _save_data runs only when the loop completed.
embed_and_save(docs, secs, embs, new_sections, vecs, ddb, sdb, edb) ==
    LET k == Len(vecs)
        secs2 == secs \o SubSeq(new_sections, 1, k)
        embs2 == embs \o vecs
        done == k = Len(new_sections)
        saved == save_data(docs, secs2, embs2, edb)
    IN  [sections |-> secs2,
         embeddings |-> embs2,
         raised |-> ~done,
         saves |-> IF done THEN 1 ELSE 0,
         documents_db |-> IF done THEN saved.documents_db ELSE ddb,
         sections_db |-> IF done THEN saved.sections_db ELSE sdb,
         embeddings_db |-> IF done THEN saved.embeddings_db ELSE edb]

\* A variant of process_document that puts the lists back as they were when
\* the call raises.
process_document_rollback(docs, secs, embs, ddb, sdb, edb, doc_id, file_name, extracted, response, vecs) ==
    LET ext == file_extension(file_name)
        got == extract_text(ext, extracted)
        unchanged == [documents |-> docs, sections |-> secs, embeddings |-> embs,
                      documents_db |-> ddb, sections_db |-> sdb,
                      embeddings_db |-> edb, result |-> "ok", seg |-> "",
                      fallback |-> FALSE, doc_id |-> 0, n |-> 0, k |-> 0,
                      saves |-> 0]
        docs2 == Append(docs, Document(doc_id, file_name, ext))
        split == split_into_sections(got.text, doc_id, response)
        r == embed_and_save(docs2, secs, embs, split.sections, vecs, ddb, sdb, edb)
    IN  IF got.raised
          THEN [unchanged EXCEPT !.result = got.error]
        ELSE IF split.raised
          THEN [unchanged EXCEPT !.result = "SegmentationError",
                                 !.seg = response.kind, !.doc_id = doc_id]
        ELSE IF r.raised
          THEN [unchanged EXCEPT !.result = "EmbeddingError",
                                 !.seg = response.kind,
                                 !.fallback = split.fallback,
                                 !.doc_id = doc_id,
                                 !.n = Len(split.sections), !.k = Len(vecs)]
        ELSE [documents |-> docs2, sections |-> r.sections,
              embeddings |-> r.embeddings, documents_db |-> r.documents_db,
              sections_db |-> r.sections_db, embeddings_db |-> r.embeddings_db,
              result |-> "ok",
              seg |-> response.kind, fallback |-> split.fallback,
              doc_id |-> doc_id, n |-> Len(split.sections), k |-> Len(vecs),
              saves |-> r.saves]

\* process_document(file), from the state (docs, secs, embs; the store ddb,
\* sdb, edb), with doc_id the uuid4 drawn for the document.  extracted is what
\* the extraction does, response what the segmentation oracle does, and vecs
\* the embeddings the embedding oracle returns before it fails, if it fails.
process_document(docs, secs, embs, ddb, sdb, edb, doc_id, file_name, extracted, response, vecs) ==
    LET ext == file_extension(file_name)
        got == extract_text(ext, extracted)
        unchanged == [documents |-> docs, sections |-> secs, embeddings |-> embs,
                      documents_db |-> ddb, sections_db |-> sdb,
                      embeddings_db |-> edb, result |-> "ok", seg |-> "",
                      fallback |-> FALSE, doc_id |-> 0, n |-> 0, k |-> 0,
                      saves |-> 0]
        docs2 == Append(docs, Document(doc_id, file_name, ext))
        split == split_into_sections(got.text, doc_id, response)
        r == embed_and_save(docs2, secs, embs, split.sections, vecs, ddb, sdb, edb)
    IN  IF got.raised
          THEN [unchanged EXCEPT !.result = got.error]
        ELSE IF split.raised
          THEN [unchanged EXCEPT !.documents = docs2,
                                 !.result = "SegmentationError",
                                 !.seg = response.kind, !.doc_id = doc_id]
        ELSE [documents |-> docs2, sections |-> r.sections,
              embeddings |-> r.embeddings, documents_db |-> r.documents_db,
              sections_db |-> r.sections_db, embeddings_db |-> r.embeddings_db,
              result |-> IF r.raised THEN "EmbeddingError" ELSE "ok",
              seg |-> response.kind, fallback |-> split.fallback,
              doc_id |-> doc_id, n |-> Len(split.sections), k |-> Len(vecs),
              saves |-> r.saves]

\* The number of sections the call would embed (0 when it fails before).
sections_to_embed(file_name, extracted, response) ==
    LET got == extract_text(file_extension(file_name), extracted)
        split == split_into_sections(got.text, 0, response)
    IN  IF got.raised \/ split.raised THEN 0 ELSE Len(split.sections)

\* One call of process_document.  names, texts, responses and vectors are the
\* inputs the environment can give: file names, extracted texts, replies of
\* the segmentation oracle and values of the embedding oracle; cap bounds
\* the number of sections held.
ProcessDocument(names, texts, responses, vectors, cap) ==
    \E file_name \in names :
    \E extracted \in {[raised |-> TRUE, text |-> <<>>]}
                     \cup {[raised |-> FALSE, text |-> t] : t \in texts} :
    \E response \in responses :
      LET n == sections_to_embed(file_name, extracted, response) IN
      \* the inputs a call never reads are not enumerated twice
      /\ extract_text(file_extension(file_name), extracted).raised
            => /\ extracted.raised
               /\ response.kind = "raise"
      /\ Len(sections) + n <= cap
      /\ \E k \in 0..n :
          \E vecs \in [1..k -> vectors] :
            \E r \in {process_document(documents, sections, embeddings,
                                       documents_db, sections_db, embeddings_db,
                                       nextId + 1, file_name, extracted,
                                       response, vecs)} :
            /\ r.doc_id # 0 => nextId < MaxDocs
            /\ nextId' = IF r.doc_id # 0 THEN r.doc_id ELSE nextId
            /\ documents' = r.documents
            /\ sections' = r.sections
            /\ embeddings' = r.embeddings
            /\ documents_db' = r.documents_db
            /\ sections_db' = r.sections_db
            /\ embeddings_db' = r.embeddings_db
            /\ allSucceeded' = (allSucceeded /\ r.result = "ok")
            /\ failed' = IF r.result # "ok" /\ r.doc_id # 0
                            THEN failed \cup {r.doc_id} ELSE failed
            /\ last' = [op |-> "process_document", result |-> r.result,
                        info |-> [file_name |-> file_name, seg |-> r.seg,
                                  fallback |-> r.fallback,
                                  doc_id |-> r.doc_id, n |-> r.n, k |-> r.k,
                                  saves |-> r.saves]]

\* ------------------------------------------------------ cosine similarity
RECURSIVE GCD(_, _)
GCD(a, b) == IF b = 0 THEN a ELSE GCD(b, a % b)

Dot(a, b) == a[1] * b[1] + a[2] * b[2]
Sign(x) == IF x > 0 THEN 1 ELSE IF x < 0 THEN -1 ELSE 0

NaN == [nan |-> TRUE, sgn |-> 0, num |-> 0, den |-> 1]

\* np.dot(a, b) / (np.linalg.norm(a) * np.linalg.norm(b)), in exact
\* arithmetic: sgn * sqrt(num / den) in lowest terms, and NaN for 0 / 0 (a
\* vector of zero norm; numpy warns and goes on).
cosine(a, b) ==
    LET d == Dot(a, b)
        nn == Dot(a, a) * Dot(b, b)
        g == GCD(d * d, nn)
    IN  IF nn = 0 THEN NaN
        ELSE IF d = 0 THEN [nan |-> FALSE, sgn |-> 0, num |-> 0, den |-> 1]
        ELSE [nan |-> FALSE, sgn |-> Sign(d), num |-> (d * d) \div g,
              den |-> nn \div g]

\* x < y on floats: false when either side is NaN.
Less(x, y) ==
    /\ ~x.nan
    /\ ~y.nan
    /\ \/ x.sgn < y.sgn
       \/ x.sgn = 1 /\ y.sgn = 1 /\ x.num * y.den < y.num * x.den
       \/ x.sgn = -1 /\ y.sgn = -1 /\ x.num * y.den > y.num * x.den

\* similarity > 0.8, the threshold being ThresholdNum / ThresholdDen
ThresholdNum == 4
ThresholdDen == 5
Threshold == [nan |-> FALSE, sgn |-> 1, num |-> ThresholdNum * ThresholdNum,
              den |-> ThresholdDen * ThresholdDen]

\* A variant of above_threshold that also accepts a similarity of exactly 0.8.
at_or_above_threshold(similarity) ==
    Less(Threshold, similarity) \/ similarity = Threshold

above_threshold(similarity) == Less(Threshold, similarity)

\* --------------------------------------------------------- search_standards
\* The order np.argsort may return: ascending, NaN last; the default kind is
\* not a stable sort, so equal values (and NaNs) come in any order.
SortsBefore(x, y) == IF x.nan THEN FALSE ELSE (y.nan \/ Less(x, y))

Perms(n) == {p \in [1..n -> 1..n] : \A i, j \in 1..n : i # j => p[i] # p[j]}

argsort(values) ==
    {p \in Perms(Len(values)) :
        \A i, j \in 1..Len(values) :
            i < j => ~SortsBefore(values[p[j]], values[p[i]])}

\* seq[-k:] in Python, for k >= 0: -0 is 0, so seq[-0:] is the whole sequence.
last_k(seq, k) ==
    IF k = 0 \/ k >= Len(seq) THEN seq
    ELSE SubSeq(seq, Len(seq) - k + 1, Len(seq))

\* seq[::-1]
reversed(seq) == [i \in 1..Len(seq) |-> seq[Len(seq) + 1 - i]]

\* content[:300] + '...' if len(content) > 300 else content
ContentLimit == 300
truncated(content) ==
    IF Len(content) > ContentLimit
      THEN SubSeq(content, 1, ContentLimit) \o <<".", ".", ".">>
      ELSE content

\* next((d for d in documents if d['id'] == document_id), {}).get('filename', 'Unknown')
filename_of(docs, document_id) ==
    IF \E j \in 1..Len(docs) : docs[j].id = document_id
      THEN LET j == CHOOSE j \in 1..Len(docs) :
                      /\ docs[j].id = document_id
                      /\ \A h \in 1..(j - 1) : docs[h].id # document_id
           IN  docs[j].filename
      ELSE "Unknown"

\* The ranking of search_standards, after the query was embedded and the
\* store found not empty.  Positions are 1-based here.
ranked_results(docs, secs, embs, query_vector, top_k, order) ==
    LET similarities == [i \in 1..Len(embs) |-> cosine(embs[i], query_vector)]
        top_indices == reversed(last_k(order, top_k))
    IN  IF \E h \in 1..Len(top_indices) : top_indices[h] > Len(secs)
          THEN [raised |-> TRUE, error |-> "IndexError", results |-> <<>>]
          ELSE [raised |-> FALSE, error |-> "",
                results |->
                  [h \in 1..Len(top_indices) |->
                      LET idx == top_indices[h]
                          section == secs[idx]
                      IN  [id |-> section.id,
                           document |-> filename_of(docs, section.document_id),
                           section |-> section.title,
                           content |-> truncated(section.content),
                           score |-> similarities[idx],
                           title |-> section.title,
                           idx |-> idx]]]

\* A variant of search_standards that tests for an empty store before it
\* embeds the query.
search_standards_empty_first(docs, secs, embs, query_embedding, top_k, order) ==
    IF Len(embs) = 0
      THEN [raised |-> FALSE, error |-> "", results |-> <<>>]
    ELSE IF query_embedding.raised
      THEN [raised |-> TRUE, error |-> "EmbeddingError", results |-> <<>>]
    ELSE ranked_results(docs, secs, embs, query_embedding.vector, top_k, order)

\* search_standards(query, top_k), with query_embedding what the embedding
\* oracle did for the query ([raised |-> TRUE], or the vector) and order the
\* permutation np.argsort returned.
search_standards(docs, secs, embs, query_embedding, top_k, order) ==
    IF query_embedding.raised
      THEN [raised |-> TRUE, error |-> "EmbeddingError", results |-> <<>>]
    ELSE IF Len(embs) = 0
      THEN [raised |-> FALSE, error |-> "", results |-> <<>>]
    ELSE ranked_results(docs, secs, embs, query_embedding.vector, top_k, order)

SearchStandards(vectors) ==
    \E query_embedding \in {[raised |-> TRUE, vector |-> <<0, 0>>]}
                           \cup {[raised |-> FALSE, vector |-> v] : v \in vectors},
       top_k \in 0..MaxTopK :
      \E order \in argsort([i \in 1..Len(embeddings) |->
                              cosine(embeddings[i], query_embedding.vector)]) :
        \E r \in {search_standards(documents, sections, embeddings,
                                   query_embedding, top_k, order)} :
          /\ last' = [op |-> "search_standards",
                      result |-> IF r.raised THEN r.error ELSE "ok",
                      info |-> [top_k |-> top_k, query |-> query_embedding,
                                results |-> r.results]]
          /\ UNCHANGED <<mem, store, nextId, allSucceeded, failed>>

\* ---------------------------------------------------- get_standards_network
\* The positions of the sections of a document, and np.mean(..., axis=0) of
\* their embeddings, kept as the sum and the count (the cosine of two means
\* is the cosine of the two sums).
doc_sections(secs, doc_id) ==
    {i \in 1..Len(secs) : secs[i].document_id = doc_id}

RECURSIVE SumOver(_, _)
SumOver(embs, idxs) ==
    IF idxs = {} THEN <<0, 0>>
    ELSE LET i == CHOOSE i \in idxs : TRUE
             rest == SumOver(embs, idxs \ {i})
         IN  <<embs[i][1] + rest[1], embs[i][2] + rest[2]>>

doc_embedding(secs, embs, doc_id) ==
    [sum |-> SumOver(embs, doc_sections(secs, doc_id)),
     n |-> Cardinality(doc_sections(secs, doc_id))]

\* The two loops over doc_ids[i] and doc_ids[i+1:]: the pairs in loop order.
RECURSIVE PairsFrom(_, _, _)
PairsFrom(n, i, j) ==
    IF i > n THEN <<>>
    ELSE IF j > n THEN PairsFrom(n, i + 1, i + 2)
    ELSE <<(<<i, j>>)>> \o PairsFrom(n, i, j + 1)

\* A variant of doc_pairs that visits every ordered pair of positions, a
\* document with itself included.
doc_pairs_every_order(n) ==
    [h \in 1..(n * n) |-> <<((h - 1) \div n) + 1, ((h - 1) % n) + 1>>]

doc_pairs(n) == PairsFrom(n, 1, 2)

RECURSIVE EdgesOver(_, _, _, _, _)
EdgesOver(docs, secs, embs, pairs, h) ==
    IF h > Len(pairs) THEN <<>>
    ELSE LET doc1_id == docs[pairs[h][1]].id
             doc2_id == docs[pairs[h][2]].id
             similarity == cosine(doc_embedding(secs, embs, doc1_id).sum,
                                  doc_embedding(secs, embs, doc2_id).sum)
         IN  (IF /\ doc_sections(secs, doc1_id) # {}
                 /\ doc_sections(secs, doc2_id) # {}
                 /\ above_threshold(similarity)
                THEN <<[source |-> doc1_id, target |-> doc2_id,
                        weight |-> similarity]>>
                ELSE <<>>)
             \o EdgesOver(docs, secs, embs, pairs, h + 1)

NodeSize == 10

get_standards_network(docs, secs, embs) ==
    IF Len(secs) < 2
      THEN [raised |-> FALSE, nodes |-> <<>>, edges |-> <<>>]
    ELSE IF \E j \in 1..Len(docs) :
               \E i \in doc_sections(secs, docs[j].id) : i > Len(embs)
      THEN [raised |-> TRUE, nodes |-> <<>>, edges |-> <<>>]
    ELSE [raised |-> FALSE,
          nodes |-> [j \in 1..Len(docs) |->
                        [id |-> docs[j].id, label |-> docs[j].filename,
                         size |-> NodeSize]],
          edges |-> EdgesOver(docs, secs, embs, doc_pairs(Len(docs)), 1)]

StandardsNetwork ==
    \E r \in {get_standards_network(documents, sections, embeddings)} :
      /\ last' = [op |-> "get_standards_network",
                  result |-> IF r.raised THEN "IndexError" ELSE "ok",
                  info |-> [nodes |-> r.nodes, edges |-> r.edges]]
      /\ UNCHANGED <<mem, store, nextId, allSucceeded, failed>>

\* ------------------------------------- get_document_count, get_section_count
get_document_count(docs) == Len(docs)

get_section_count(secs) == Len(secs)

GetDocumentCount ==
    /\ last' = [op |-> "get_document_count",
                result |-> get_document_count(documents), info |-> [x |-> 0]]
    /\ UNCHANGED <<mem, store, nextId, allSucceeded, failed>>

GetSectionCount ==
    /\ last' = [op |-> "get_section_count",
                result |-> get_section_count(sections), info |-> [x |-> 0]]
    /\ UNCHANGED <<mem, store, nextId, allSucceeded, failed>>

\* ----------------------------------------------------------------- __init__
\* A new DocumentProcessor (main() makes one on every run of the script):
\* empty lists, then _load_data.
Construct ==
    LET r == load_data(documents_db, sections_db, embeddings_db) IN
    /\ documents' = r.documents
    /\ sections' = r.sections
    /\ embeddings' = r.embeddings
    /\ allSucceeded' = TRUE
    /\ failed' = {}
    /\ last' = [op |-> "init",
                result |-> IF r.error THEN "load_error_logged" ELSE "ok",
                info |-> [ddb |-> documents_db.st, sdb |-> sections_db.st,
                          edb |-> embeddings_db.st]]
    /\ UNCHANGED <<store, nextId>>

\* -------------------------------------------------------------- environment
\* A file of the store becomes unreadable (a partial write, a damaged disk).
CorruptStore(files) ==
    \E which \in files :
      /\ documents_db' = IF which = "documents" THEN Corrupt ELSE documents_db
      /\ sections_db' = IF which = "sections" THEN Corrupt ELSE sections_db
      /\ embeddings_db' = IF which = "embeddings" THEN Corrupt ELSE embeddings_db
      /\ store' # store
      /\ (IF which = "documents" THEN documents_db
          ELSE IF which = "sections" THEN sections_db
          ELSE embeddings_db).st = "ok"
      /\ last' = [op |-> "corrupt", result |-> which, info |-> [x |-> 0]]
      /\ UNCHANGED <<mem, nextId, allSucceeded, failed>>

\* ------------------------------------------------------------ specification
\* The first run: no store, and a processor constructed on it.
Init ==
    /\ documents = <<>>
    /\ sections = <<>>
    /\ embeddings = <<>>
    /\ documents_db = Missing
    /\ sections_db = Missing
    /\ embeddings_db = Missing
    /\ nextId = 0
    /\ allSucceeded = TRUE
    /\ failed = {}
    /\ last = [op |-> "init", result |-> "ok",
               info |-> [ddb |-> "missing", sdb |-> "missing", edb |-> "missing"]]

\* Inputs of the ingestion machine.
P1 == <<"a">>
P2 == <<"a", " ", "b", NL>>
IngestTexts == {<<>>, P1, P1 \o <<NL, NL>> \o P2}

V10 == <<1, 0>>
V43 == <<4, 3>>
V34 == <<3, 4>>
V00 == <<0, 0>>
EmbeddingValues == {V10, V43, V34, V00}

OracleSections == {<<>>, <<[content |-> P1]>>}

Responses ==
    {[kind |-> k, value |-> <<>>] :
        k \in {"raise", "invalid_json", "no_sections_key", "not_an_object", "not_dicts"}}
    \cup {[kind |-> "sections", value |-> v] : v \in OracleSections}

\* A query leaves the processor and the store as they are, and main() ends
\* the run of the script with it: what follows a query is the next run, which
\* constructs a new processor.
AfterQuery ==
    last.op \in {"search_standards", "get_standards_network",
                 "get_document_count", "get_section_count"}

Next ==
    \/ Construct
    \/ ~AfterQuery /\ CorruptStore({"documents", "sections", "embeddings"})
    \/ ~AfterQuery /\ ProcessDocument({"std.TXT", "std.md"}, IngestTexts,
                                      Responses, {V10, V00}, MaxSections)
    \/ ~AfterQuery /\ GetDocumentCount
    \/ ~AfterQuery /\ GetSectionCount

Spec == Init /\ [][Next]_vars

\* The same processor with the queries: one file name, texts of no, one and
\* two paragraphs, a segmentation oracle whose reply takes the fallback, the
\* embedding values that make equal, ordered, threshold and NaN scores, and
\* a store whose sections.json or embeddings.npy can become unreadable.
QueryTexts == {<<>>, P1, P1 \o <<NL, NL>> \o P1}

NextQuery ==
    \/ Construct
    \/ ~AfterQuery /\ CorruptStore({"sections", "embeddings"})
    \/ ~AfterQuery /\ ProcessDocument({"std.TXT"}, QueryTexts,
                                      {[kind |-> "invalid_json", value |-> <<>>]},
                                      EmbeddingValues, MaxQuerySections)
    \/ ~AfterQuery /\ SearchStandards({V10, V00})
    \/ ~AfterQuery /\ StandardsNetwork

SpecQuery == Init /\ [][NextQuery]_vars

\* _split_into_sections alone: a text of at most MaxTextLen characters and a
\* behaviour of the segmentation oracle are drawn, and the function is
\* applied to them once.
Alphabet == {"a", " ", NL}

Texts(n) == UNION {[1..k -> Alphabet] : k \in 0..n}

InitSplit ==
    /\ documents = <<>>
    /\ sections = <<>>
    /\ embeddings = <<>>
    /\ documents_db = Missing
    /\ sections_db = Missing
    /\ embeddings_db = Missing
    /\ nextId = 0
    /\ allSucceeded = TRUE
    /\ failed = {}
    /\ \E text \in Texts(MaxTextLen) : \E response \in Responses :
          last = [op |-> "call", result |-> "pending",
                  info |-> [text |-> text, response |-> response]]

SplitIntoSections ==
    /\ last.op = "call"
    /\ \E r \in {split_into_sections(last.info.text, 1, last.info.response)} :
          last' = [op |-> "_split_into_sections",
                   result |-> IF r.raised THEN "SegmentationError" ELSE "ok",
                   info |-> [text |-> last.info.text,
                             response |-> last.info.response,
                             fallback |-> r.fallback,
                             sections |-> r.sections]]
    /\ UNCHANGED <<mem, store, nextId, allSucceeded, failed>>

NextSplit == SplitIntoSections

SpecSplit == InitSplit /\ [][NextSplit]_vars

\* ------------------------------------------------------------------ claims
Loaded == load_data(documents_db, sections_db, embeddings_db)

ProcessReturned == last.op = "process_document" /\ last.result = "ok"

Aligned == Len(sections) = Len(embeddings)

Resolved ==
    \A i \in 1..Len(sections) :
        \E j \in 1..Len(documents) : documents[j].id = sections[i].document_id

\* C1: on a processor constructed by loading the store, after process_document
\* calls that all returned, len(sections) = len(embeddings) and every
\* section's document_id is the id of a stored document.
C1_AlignedAfterSuccess ==
    (allSucceeded /\ ProcessReturned) => (Aligned /\ Resolved)

\* C2: what _save_data wrote, _load_data reads back on a fresh instance as the
\* same documents, sections and embedding rows, whatever the store held.
C2_SaveLoadRoundTrip ==
    ProcessReturned =>
        /\ Loaded.documents = documents
        /\ Loaded.sections = sections
        /\ Loaded.embeddings = embeddings

\* C3: a load of a missing store yields three empty collections, and a load
\* that finds one of the three files unreadable yields three empty
\* collections too.
C3_LoadRevertsToEmpty ==
    (last.op = "init" /\
        (\/ "corrupt" \in {last.info.ddb, last.info.sdb, last.info.edb}
         \/ {last.info.ddb, last.info.sdb, last.info.edb} = {"missing"}))
    => (documents = <<>> /\ sections = <<>> /\ embeddings = <<>>)

\* C4: process_document on a file whose extension is not .pdf, .docx or .txt
\* raises the unsupported-format error and changes neither the lists nor the
\* store.
C4_UnsupportedFormat ==
    [][(last'.op = "process_document"
        /\ file_extension(last'.info.file_name) \notin {".pdf", ".docx", ".txt"})
       => (last'.result = "ValueError" /\ UNCHANGED <<mem, store>>)]_vars

C4_Witness ==
    /\ last.op = "process_document"
    /\ last.result = "ValueError"
    /\ file_extension(last.info.file_name) = ".md"
    /\ Len(sections) > 0
    /\ sections_db.st = "ok"

\* C5: whatever way the segmentation oracle fails, process_document does not
\* raise for it: the paragraph fallback is taken.
C5_SegmentationRecovered ==
    (last.op = "process_document"
     /\ last.info.seg \in {"raise", "invalid_json", "no_sections_key",
                           "not_an_object", "not_dicts"})
    => (last.result # "SegmentationError" /\ last.info.fallback)

\* C6: a process_document call that fails leaves the store as it was, so a
\* later load reads the documents and sections of the earlier calls unchanged.
C6_FailureKeepsStore ==
    [][(last'.op = "process_document" /\ last'.result # "ok")
       => /\ store' = store
          /\ load_data(documents_db', sections_db', embeddings_db') = Loaded]_vars

C6_Witness ==
    /\ last.op = "process_document"
    /\ last.result = "EmbeddingError"
    /\ last.info.k >= 1
    /\ sections_db.st = "ok"
    /\ Len(sections_db.data) >= 1
    /\ Len(sections) > Len(sections_db.data)

\* C14: a process_document call that returns has written the store exactly
\* once, and the write came after the document record and all the sections
\* and embeddings of the document were appended: the store holds the lists as
\* they are on return, the new document and its n sections included.
SectionsOf(secs, doc_id) == SelectSeq(secs, LAMBDA s : s.document_id = doc_id)

C14_OneSaveAfterAppends ==
    ProcessReturned =>
        /\ last.info.saves = 1
        /\ documents[Len(documents)].id = last.info.doc_id
        /\ Len(SectionsOf(sections, last.info.doc_id)) = last.info.n
        /\ documents_db = Written(documents)
        /\ sections_db = Written(sections)
        /\ embeddings # <<>> => embeddings_db = Written(NpArray(embeddings))

C14_Witness ==
    /\ ProcessReturned
    /\ last.info.n = 2
    /\ last.info.saves = 1
    /\ Len(documents) = 2
    /\ Len(sections_db.data) = 3
    /\ Len(embeddings_db.data.rows) = 3

\* C16: from a processor whose sections and embeddings have the same length,
\* every process_document call, returning or raising, leaves them with the
\* same length; and a call that fails in the embedding oracle on its section
\* of index k leaves exactly the first k sections of the document, and their
\* k embeddings, appended to what was there.
IsPrefix(s, t) == Len(s) <= Len(t) /\ SubSeq(t, 1, Len(s)) = s

C16_AlignmentKept ==
    [][last'.op = "process_document" =>
          /\ Aligned => Aligned'
          /\ last'.result = "EmbeddingError" =>
                LET k == last'.info.k IN
                /\ k < last'.info.n
                /\ IsPrefix(sections, sections')
                /\ IsPrefix(embeddings, embeddings')
                /\ Len(sections') = Len(sections) + k
                /\ Len(embeddings') = Len(embeddings) + k
                /\ \A i \in 1..k :
                      /\ sections'[Len(sections) + i].document_id = last'.info.doc_id
                      /\ sections'[Len(sections) + i].index = i - 1]_vars

C16_Witness ==
    /\ last.op = "process_document"
    /\ last.result = "EmbeddingError"
    /\ last.info.k = 1
    /\ last.info.n = 2
    /\ Aligned
    /\ Len(sections) = 2
    /\ sections[1].document_id # sections[2].document_id

\* C17: a process_document call that fails after it created the document
\* record is not rolled back in memory: the record, and the sections appended
\* before the failure, stay in the lists of the processor, are counted by
\* get_document_count, and are written to the store by the next
\* process_document call that returns; so the store can hold a document with
\* no section, or with a prefix of its sections only.
FailedAfterRecord ==
    last.op = "process_document"
    /\ last.result \in {"SegmentationError", "EmbeddingError"}

C17_FailureNotRolledBack ==
    [][/\ FailedAfterRecord' =>
            /\ Len(documents') = Len(documents) + 1
            /\ documents'[Len(documents')].id = last'.info.doc_id
            /\ Len(SectionsOf(sections', last'.info.doc_id)) = last'.info.k
       /\ last'.op # "init" =>
            /\ IsPrefix(documents, documents')
            /\ IsPrefix(sections, sections')
       /\ last'.op = "get_document_count" => last'.result = Len(documents)
       /\ ProcessReturned' =>
            /\ documents_db' = Written(documents')
            /\ sections_db' = Written(sections')]_vars

C17_Witness ==
    /\ ProcessReturned
    /\ \E j \in 1..Len(documents_db.data) :
          LET doc_id == documents_db.data[j].id IN
          /\ doc_id \in failed
          /\ doc_id # last.info.doc_id
          /\ Len(SectionsOf(sections_db.data, doc_id)) = 1

Min(a, b) == IF a < b THEN a ELSE b

SearchReturned == last.op = "search_standards" /\ last.result = "ok"
NetworkReturned == last.op = "get_standards_network" /\ last.result = "ok"

\* C7: on a store of n aligned sections, search_standards(query, top_k = k)
\* returns exactly min(k, n) results, for every k >= 0.
C7_TopKBound ==
    (SearchReturned /\ Aligned)
    => Len(last.info.results) = Min(last.info.top_k, Len(sections))

\* C8: the results are in descending order of score, and of two sections with
\* the same score the one inserted earlier comes first, and is the one kept
\* when only one of them is within top_k (stated for top_k >= 1).
SameScore(x, y) == ~x.nan /\ ~y.nan /\ x = y

C8_DescendingStable ==
    (SearchReturned /\ Aligned /\ last.info.top_k >= 1) =>
        LET results == last.info.results
            kept == {results[h].idx : h \in 1..Len(results)}
            score(i) == cosine(embeddings[i], last.info.query.vector)
        IN  /\ \A g, h \in 1..Len(results) :
                  g < h => /\ ~Less(results[g].score, results[h].score)
                           /\ SameScore(results[g].score, results[h].score)
                                => results[g].idx < results[h].idx
            /\ \A i \in kept : \A j \in (1..Len(sections)) \ kept :
                  SameScore(score(i), score(j)) => i < j

\* C9: on a store with no section, search_standards returns the empty list
\* and no error, whatever the embedding oracle does for the query.
C9_EmptyStoreNeverFails ==
    (last.op = "search_standards" /\ Len(sections) = 0)
    => (last.result = "ok" /\ last.info.results = <<>>)

\* C9, amended: with no stored embedding, search_standards returns the empty
\* list when the embedding oracle returns a vector for the query, and raises
\* the oracle's error when it does not (the query is embedded first).
C9_EmptyStore ==
    (last.op = "search_standards" /\ Len(embeddings) = 0)
    => IF last.info.query.raised
         THEN last.result = "EmbeddingError"
         ELSE last.result = "ok" /\ last.info.results = <<>>

C9_Witness ==
    /\ last.op = "search_standards"
    /\ Len(sections) = 0
    /\ Len(embeddings) = 0
    /\ Len(documents) > 0
    /\ ~last.info.query.raised
    /\ last.info.top_k > 0
    /\ last.result = "ok"
    /\ last.info.results = <<>>

\* C10: in the network returned, two distinct documents that both have a
\* section have no edge when the cosine similarity of their centroids is at
\* or below 0.8, and exactly one edge, weighted by that similarity, when it
\* is above 0.8.
HasSection(doc_id) == \E i \in 1..Len(sections) : sections[i].document_id = doc_id

Centroid(doc_id) ==
    SumOver(embeddings, {i \in 1..Len(sections) : sections[i].document_id = doc_id})

EdgesBetween(edges, a, b) ==
    {h \in 1..Len(edges) : {edges[h].source, edges[h].target} = {a, b}}

C10_NetworkThreshold ==
    NetworkReturned =>
        \A i, j \in 1..Len(documents) :
            LET a == documents[i].id
                b == documents[j].id
                sim == cosine(Centroid(a), Centroid(b))
                between == EdgesBetween(last.info.edges, a, b)
            IN  (i < j /\ HasSection(a) /\ HasSection(b)) =>
                    /\ (~sim.nan /\ ~Less(Threshold, sim)) => between = {}
                    /\ Less(Threshold, sim) =>
                          /\ Cardinality(between) = 1
                          /\ \A h \in between : last.info.edges[h].weight = sim

C10_Witness ==
    /\ NetworkReturned
    /\ Len(last.info.edges) = 1
    /\ last.info.edges[1].source = documents[1].id
    /\ last.info.edges[1].target = documents[2].id
    /\ last.info.edges[1].weight = cosine(V43, V34)

\* C11: in every network returned, no edge joins a document to itself, no
\* unordered pair of documents has more than one edge (never both (a, b) and
\* (b, a)), and both ends of every edge are documents of the processor that
\* own at least one section.
IsDocument(doc_id) == \E j \in 1..Len(documents) : documents[j].id = doc_id

C11_EdgesWellFormed ==
    NetworkReturned =>
        LET edges == last.info.edges IN
        \A h \in 1..Len(edges) :
            /\ edges[h].source # edges[h].target
            /\ EdgesBetween(edges, edges[h].source, edges[h].target) = {h}
            /\ IsDocument(edges[h].source) /\ HasSection(edges[h].source)
            /\ IsDocument(edges[h].target) /\ HasSection(edges[h].target)

C11_Witness ==
    /\ NetworkReturned
    /\ Len(documents) = 2
    /\ Len(last.info.nodes) = 2
    /\ Len(last.info.edges) = 1
    /\ last.info.edges[1].weight = cosine(V10, V10)

\* C15: in search_standards and in get_standards_network, the cosine
\* similarity of two vectors of which one has zero norm is 0 and never NaN:
\* every score returned, and every similarity compared with the threshold,
\* is a defined number.
ZeroNorm(v) == Dot(v, v) = 0

Zero == [nan |-> FALSE, sgn |-> 0, num |-> 0, den |-> 1]

C15_ZeroNormIsZero ==
    /\ (SearchReturned /\ Aligned) =>
          \A h \in 1..Len(last.info.results) :
              LET result == last.info.results[h] IN
              /\ ~result.score.nan
              /\ (ZeroNorm(last.info.query.vector) \/ ZeroNorm(embeddings[result.idx]))
                    => result.score = Zero
    /\ (NetworkReturned /\ Aligned) =>
          \A i, j \in 1..Len(documents) :
              LET a == documents[i].id
                  b == documents[j].id
              IN  (i < j /\ HasSection(a) /\ HasSection(b))
                    => ~cosine(Centroid(a), Centroid(b)).nan

\* ----------------------------------------------------- claims, segmentation
SplitCalled == last.op = "_split_into_sections"

NonEmptyBlock(block) == Strip(block) # <<>>

SectionFields == {"id", "document_id", "index", "title", "content", "word_count"}

\* C12: when the fallback is taken, a text with m non-empty paragraph blocks
\* (empty blocks may lie between them) yields exactly m sections, in the
\* order of the paragraphs, titled "Section 1", "Section 2", ..., "Section m".
C12_FallbackTitles ==
    (SplitCalled /\ last.result = "ok" /\ last.info.fallback) =>
        LET paragraphs == SelectSeq(SplitParagraphs(last.info.text), NonEmptyBlock)
            result == last.info.sections
        IN  /\ Len(result) = Len(paragraphs)
            /\ \A i \in 1..Len(result) :
                  /\ result[i].content = Strip(paragraphs[i])
                  /\ result[i].title = SectionTitle(i)

\* C13: for every non-empty text and every behaviour of the segmentation
\* oracle, a reply with an empty list of sections included,
\* _split_into_sections returns at least one section, and every section
\* returned has the fields id, document_id, index, title, content and
\* word_count.
C13_AtLeastOneSection ==
    (SplitCalled /\ last.info.text # <<>>) =>
        /\ last.result = "ok"
        /\ Len(last.info.sections) >= 1
        /\ \A i \in 1..Len(last.info.sections) :
              DOMAIN last.info.sections[i] = SectionFields

====
